---- MODULE Spec2Model ----
(***************************************************************************)
(* arxiv-cli (src/src/main.rs): the keystroke loop of run_app, the view    *)
(* model App (items, TableState selection, current, ids), the pagination   *)
(* Params (page: u16, query), the seen-set file, and main's terminal       *)
(* set-up / tear-down.                                                     *)
(*                                                                         *)
(* Strings the program edits a character at a time (the digit accumulator  *)
(* `amount`, the search buffer) are sequences of one-character strings.    *)
(* A Response is represented by its id field, the only field the loop      *)
(* stores anywhere; open_url starts an external program and changes no      *)
(* program state, but panics when that program cannot be started.           *)
(* An id, like the text of the seen-set file, is a sequence of characters,  *)
(* so that writing the file and reading it back are modelled as they work.  *)
(* A usize (a row index, a row-step count) is four 16-bit limbs, so that    *)
(* parse::<usize>() and i + amount have their 64-bit ceiling.               *)
(***************************************************************************)
EXTENDS Integers, Sequences, FiniteSets, TLC

VARIABLES
    pc,         \* position of main / run_app: "main_fetch", "setup", "browse",
                \* "key_fetch", "search", "help", "restore", "exit_ok",
                \* "exit_err", "panicked"
    build,      \* "debug": arithmetic overflow panics; "release": it wraps
    home,       \* dirs::home_dir() is Some(_)
    file,       \* ~/.arxiv-cli: NoFile, or its text
    writes,     \* completed writes of the seen-set file by this process
    terminal,   \* the terminal mode: "cooked" or "raw"
    screen,     \* "main", "alternate" (alternate screen, mouse capture, cursor
                \* hidden by draw), or "main_hidden_cursor"
    entered,    \* enable_raw_mode() has succeeded in this process
    items,      \* App.items, each Response by its id
    selected,   \* App.state.selected(): None_usize or an index (a usize)
    current,    \* App.current: None_usize or an index (a usize)
    ids,        \* App.ids
    page,       \* Params.page (u16)
    query,      \* Params.query
    amount,     \* run_app's digit accumulator
    buf,        \* the search loop's local `query` buffer
    inflight,   \* requests sent by get_items and not yet answered
    err,        \* why the process ended: "none", "fetch", "io", "save", "setup",
                \* "restore", "panic"
    key,        \* the last key event the loop read ("" before the first)
    parsed,     \* the accumulator text the last j, k, n or p handed to parse
    left        \* key events the exploration still reads

vars == <<pc, build, home, file, writes, terminal, screen, entered, items, selected,
          current, ids, page, query, amount, buf, inflight, err, key, parsed,
          left>>

----------------------------------------------------------------------------
(* Bounds of the exploration *)

\* key events one run reads
MaxKeys == 4

\* ids in the seen-set when the store is exercised alone
MaxIds == 3

(* Program constants *)

\* u16: Params.page and the page-step amount
U16 == 65536

\* the page ceiling of next_page_by
PageCap == 1000

\* Option::None of a parse::<u16>()
None == -1

\* outcome of an operation that panics
Panic == -2

\* Option::None of an Option<usize>: selected, current, parse::<usize>()
None_usize == <<>>

\* outcome of a usize operation that panics
Panic_usize == <<Panic>>

\* the seen-set file does not exist
NoFile == <<"<absent>">>

\* digit keys the exploration presses (all ten are handled alike)
DigitKeys == {"0", "5"}

\* characters typed in search mode
SearchChars == {"q", "5"}

\* line feed and carriage return
LF == "\n"

CR == "\r"

\* ids of documents
IdA == <<"a">>

IdB == <<"b">>

IdC == <<"c">>

\* bodies the remote service answers with
Responses == { <<>>, <<IdA>>, <<IdB, IdA>>, <<IdA, IdB, IdC>> }

\* contents of ~/.arxiv-cli at process start: absent, or "a\nc\n"
StartFiles == { NoFile, <<"a", LF, "c", LF>> }

Builds == {"debug", "release"}

----------------------------------------------------------------------------
(* Pure functions *)

DigitVal(c) ==
    CASE c = "0" -> 0 [] c = "1" -> 1 [] c = "2" -> 2 [] c = "3" -> 3
      [] c = "4" -> 4 [] c = "5" -> 5 [] c = "6" -> 6 [] c = "7" -> 7
      [] c = "8" -> 8 [] c = "9" -> 9

\* str::parse::<uN>() of a digit string, left to right with a checked
\* multiply-add: None for "" and for a value above max
RECURSIVE ParseFrom(_, _, _, _)
ParseFrom(s, i, acc, max) ==
    IF i > Len(s) THEN acc
    ELSE LET v == acc * 10 + DigitVal(s[i])
         IN  IF v > max THEN None ELSE ParseFrom(s, i + 1, v, max)

parse_u16(s) == IF Len(s) = 0 THEN None ELSE ParseFrom(s, 1, 0, U16 - 1)

unwrap_or(opt, d) == IF opt = None THEN d ELSE opt

\* a usize is a 64-bit value, kept as four 16-bit limbs, most significant
\* first
Limb == U16

\* the usize of a number below 2^31
usize(n) == <<0, 0, n \div Limb, n % Limb>>

usize_MAX == <<Limb - 1, Limb - 1, Limb - 1, Limb - 1>>

\* the number of a usize below 2^31
to_int(x) == x[3] * Limb + x[4]

\* x < y on usize
less(x, y) ==
    \E i \in 1..4 : x[i] < y[i] /\ \A j \in 1..(i - 1) : x[j] = y[j]

\* x + y with the carry out of 64 bits as a fifth, leading limb
add_wide(x, y) ==
    LET s4 == x[4] + y[4]
        s3 == x[3] + y[3] + (s4 \div Limb)
        s2 == x[2] + y[2] + (s3 \div Limb)
        s1 == x[1] + y[1] + (s2 \div Limb)
    IN  <<s1 \div Limb, s1 % Limb, s2 % Limb, s3 % Limb, s4 % Limb>>

\* x * 10 + d with the carry out of 64 bits as a fifth, leading limb
mul10_wide(x, d) ==
    LET s4 == x[4] * 10 + d
        s3 == x[3] * 10 + (s4 \div Limb)
        s2 == x[2] * 10 + (s3 \div Limb)
        s1 == x[1] * 10 + (s2 \div Limb)
    IN  <<s1 \div Limb, s1 % Limb, s2 % Limb, s3 % Limb, s4 % Limb>>

\* the 64 bits a usize keeps of a wide result
low(w) == <<w[2], w[3], w[4], w[5]>>

\* x - y on usize, for x >= y
sub(x, y) ==
    LET d4 == x[4] - y[4]
        d3 == x[3] - y[3] - (IF d4 < 0 THEN 1 ELSE 0)
        d2 == x[2] - y[2] - (IF d3 < 0 THEN 1 ELSE 0)
        d1 == x[1] - y[1] - (IF d2 < 0 THEN 1 ELSE 0)
    IN  <<(d1 + Limb) % Limb, (d2 + Limb) % Limb, (d3 + Limb) % Limb,
          (d4 + Limb) % Limb>>

\* str::parse::<usize>() of a digit string from position i: a checked
\* multiply-add per digit, None_usize once the value passes 2^64 - 1
RECURSIVE ParseUsizeFrom(_, _, _)
ParseUsizeFrom(s, i, acc) ==
    IF i > Len(s) THEN acc
    ELSE LET w == mul10_wide(acc, DigitVal(s[i]))
         IN  IF w[1] # 0 THEN None_usize
             ELSE ParseUsizeFrom(s, i + 1, low(w))

\* a parse that clamps a too large digit string to the largest usize
parse_usize_saturating(s) ==
    IF Len(s) = 0 THEN None_usize
    ELSE IF ParseUsizeFrom(s, 1, usize(0)) = None_usize THEN usize_MAX
         ELSE ParseUsizeFrom(s, 1, usize(0))

parse_usize(s) ==
    IF Len(s) = 0 THEN None_usize ELSE ParseUsizeFrom(s, 1, usize(0))

unwrap_or_usize(opt, d) == IF opt = None_usize THEN d ELSE opt

\* next_page_by without the ceiling: the (wrapping or panicking) sum itself
next_page_by_uncapped(p, amt, bld) ==
    IF p + amt >= U16
    THEN (IF bld = "debug" THEN Panic ELSE (p + amt) % U16)
    ELSE p + amt

\* Params::next_page_by: page + amount is a u16 addition
next_page_by(p, amt, bld) ==
    LET sum == IF p + amt >= U16
               THEN (IF bld = "debug" THEN Panic ELSE (p + amt) % U16)
               ELSE p + amt
    IN  IF sum = Panic THEN Panic
        ELSE IF sum < PageCap THEN sum ELSE PageCap

\* prev_page_by without the floor: a bare u16 subtraction, which wraps
prev_page_by_wrapping(p, amt) == (p - amt + U16) % U16

\* Params::prev_page_by
prev_page_by(p, amt) == IF p <= amt THEN 0 ELSE p - amt

\* App::last_item
last_item(len) == IF len = 0 THEN usize(0) ELSE usize(len - 1)

\* next_by that steps from row 0 when nothing is selected
next_by_from_zero(sel, len, amt, bld) ==
    LET i    == IF sel = None_usize THEN usize(0) ELSE sel
        sum  == add_wide(i, amt)
        last == IF len = 0 THEN usize_MAX ELSE usize(len - 1)
    IN  IF bld = "debug" /\ (sum[1] # 0 \/ len = 0) THEN Panic_usize
        ELSE IF less(low(sum), last) THEN low(sum) ELSE last

\* App::next_by: i + amount and items.len() - 1 are usize operations. A debug
\* build panics when the sum passes 2^64 - 1 or when len = 0; a release build
\* wraps both (len - 1 becomes 2^64 - 1).
next_by(sel, len, amt, bld) ==
    IF sel = None_usize THEN usize(0)
    ELSE LET sum  == add_wide(sel, amt)
             last == IF len = 0 THEN usize_MAX ELSE usize(len - 1)
         IN  IF bld = "debug" /\ (sum[1] # 0 \/ len = 0) THEN Panic_usize
             ELSE IF less(low(sum), last) THEN low(sum) ELSE last

\* App::previous_by
previous_by(sel, amt) ==
    IF sel = None_usize THEN usize(0)
    ELSE IF sel = usize(0) THEN usize(0)
         ELSE IF less(amt, sel) THEN sub(sel, amt) ELSE usize(0)

\* position of the first line feed of a text, 0 when it has none
RECURSIVE FirstLF(_, _)
FirstLF(text, i) ==
    IF i > Len(text) THEN 0
    ELSE IF text[i] = LF THEN i ELSE FirstLF(text, i + 1)

\* a line without the carriage return that preceded its line feed
StripCR(line) ==
    IF Len(line) > 0 /\ line[Len(line)] = CR
    THEN SubSeq(line, 1, Len(line) - 1) ELSE line

\* str::lines: split at "\n" or "\r\n"; the last line needs no ending
RECURSIVE Lines(_)
Lines(text) ==
    LET n == FirstLF(text, 1)
    IN  IF n = 0
        THEN (IF Len(text) = 0 THEN <<>> ELSE <<text>>)
        ELSE <<StripCR(SubSeq(text, 1, n - 1))>>
                 \o Lines(SubSeq(text, n + 1, Len(text)))

\* the HashSet get_ids fills from the lines
RECURSIVE LinesToSet(_)
LinesToSet(lines) ==
    IF Len(lines) = 0 THEN {} ELSE {Head(lines)} \cup LinesToSet(Tail(lines))

\* get_ids: the lines of the file as a set; empty without a home directory
\* or a readable file
get_ids(hm, f) == IF hm /\ f # NoFile THEN LinesToSet(Lines(f)) ELSE {}

\* the iteration orders of a HashSet: any order
RECURSIVE Orders(_)
Orders(S) ==
    IF S = {} THEN { <<>> }
    ELSE UNION { { <<x>> \o t : t \in Orders(S \ {x}) } : x \in S }

\* a save that pushes the ids without the line ending
RECURSIVE SaveText_unterminated(_)
SaveText_unterminated(order) ==
    IF Len(order) = 0 THEN <<>>
    ELSE Head(order) \o SaveText_unterminated(Tail(order))

\* save_ids: format!("{}\n", id) for each id in iteration order
RECURSIVE SaveText(_)
SaveText(order) ==
    IF Len(order) = 0 THEN <<>>
    ELSE Head(order) \o <<LF>> \o SaveText(Tail(order))

\* items[current.unwrap_or(0)] is in bounds
InBounds(cur, len) == less(unwrap_or_usize(cur, usize(0)), usize(len))

----------------------------------------------------------------------------
(* Initial state: App::new, set_ids(get_ids()), Params::new, and main        *)
(* waiting for the first get_items *)

Init ==
    /\ pc = "main_fetch"
    /\ build \in Builds
    /\ home \in BOOLEAN
    /\ file \in StartFiles
    /\ writes = 0
    /\ terminal = "cooked"
    /\ screen = "main"
    /\ entered = FALSE
    /\ items = <<>>
    /\ selected = None_usize
    /\ current = None_usize
    /\ ids = get_ids(home, file)
    /\ page = 1
    /\ query = <<"a", "l", "g", "o", "r", "i", "t", "h", "m", "s">>
    /\ amount = <<>>
    /\ buf = <<>>
    /\ inflight = 1
    /\ err = "none"
    /\ key = ""
    /\ parsed = <<>>
    /\ left = MaxKeys

----------------------------------------------------------------------------
(* Steps of main *)

\* get_items with a retry: a failed request is sent again
FetchReturn_retrying ==
    /\ pc \in {"main_fetch", "key_fetch"}
    /\ \/ \E r \in Responses :
            /\ items' = r
            /\ inflight' = inflight - 1
            /\ pc' = IF pc = "main_fetch" THEN "setup" ELSE "browse"
            /\ err' = err
       \/ /\ items' = items
          /\ inflight' = inflight
          /\ pc' = pc
          /\ err' = "fetch"
    /\ UNCHANGED <<build, home, file, writes, terminal, screen, entered, selected,
                   current, ids, page, query, amount, buf, key, parsed, left>>

\* get_items returns: Ok(list) replaces the list, Err ends the process
FetchReturn ==
    /\ pc \in {"main_fetch", "key_fetch"}
    /\ inflight' = inflight - 1
    /\ \/ \E r \in Responses :
            /\ items' = r
            /\ pc' = IF pc = "main_fetch" THEN "setup" ELSE "browse"
            /\ err' = err
       \/ /\ items' = items
          /\ pc' = "exit_err"
          /\ err' = "fetch"
    /\ UNCHANGED <<build, home, file, writes, terminal, screen, entered, selected,
                   current, ids, page, query, amount, buf, key, parsed, left>>

\* enable_raw_mode()?, execute!(EnterAlternateScreen, ..)?, Terminal::new()?
Setup ==
    /\ pc = "setup"
    /\ \/ /\ terminal' = "raw" /\ screen' = "alternate" /\ entered' = TRUE
          /\ pc' = "browse" /\ err' = err
       \/ /\ terminal' = "raw" /\ screen' = "alternate" /\ entered' = TRUE
          /\ pc' = "exit_err" /\ err' = "setup"      \* Terminal::new fails
       \/ /\ terminal' = "raw" /\ screen' = screen /\ entered' = TRUE
          /\ pc' = "exit_err" /\ err' = "setup"      \* execute! fails
       \/ /\ terminal' = terminal /\ screen' = screen /\ entered' = entered
          /\ pc' = "exit_err" /\ err' = "setup"      \* enable_raw_mode fails
    /\ UNCHANGED <<build, home, file, writes, items, selected, current, ids,
                   page, query, amount, buf, inflight, key, parsed, left>>

\* after run_app is Ok: disable_raw_mode()?, execute!(LeaveAlternateScreen,
\* ..)?, show_cursor()?; each `?` leaves main with what was undone so far
Restore ==
    /\ pc = "restore"
    /\ \/ /\ terminal' = "cooked" /\ screen' = "main"
          /\ pc' = "exit_ok" /\ err' = err
       \/ /\ terminal' = "cooked" /\ screen' = "main_hidden_cursor"
          /\ pc' = "exit_err" /\ err' = "restore"    \* show_cursor fails
       \/ /\ terminal' = "cooked" /\ screen' = screen
          /\ pc' = "exit_err" /\ err' = "restore"    \* execute! fails
       \/ /\ terminal' = terminal /\ screen' = screen
          /\ pc' = "exit_err" /\ err' = "restore"    \* disable_raw_mode fails
    /\ UNCHANGED <<build, home, file, writes, entered, items, selected,
                   current, ids, page, query, amount, buf, inflight, key, parsed, left>>

\* terminal.draw or event::read fails: the `?` leaves run_app and main
IoError ==
    /\ pc \in {"browse", "search", "help"}
    /\ pc' = "exit_err"
    /\ err' = "io"
    /\ UNCHANGED <<build, home, file, writes, terminal, screen, entered, items,
                   selected, current, ids, page, query, amount, buf, inflight,
                   key, parsed, left>>

----------------------------------------------------------------------------
(* Key events in Browse mode *)

Read(k) ==
    /\ pc = "browse"
    /\ left > 0
    /\ key' = k
    /\ left' = left - 1

KeyDigit ==
    \E d \in DigitKeys :
        /\ Read(d)
        /\ amount' = Append(amount, d)
        /\ UNCHANGED <<pc, build, parsed, home, file, writes, terminal, screen, entered, items,
                       selected, current, ids, page, query, buf, inflight, err>>

\* 'q': save_ids()?; return Ok(())
KeyQ ==
    /\ Read("q")
    /\ \/ /\ ~home
          /\ pc' = "restore"
          /\ UNCHANGED <<file, writes, err>>
       \/ /\ home
          /\ \E order \in Orders(ids) :
                /\ file' = SaveText(order)
                /\ writes' = writes + 1
          /\ pc' = "restore"
          /\ err' = err
       \/ /\ home              \* File::options().open fails
          /\ pc' = "exit_err"
          /\ err' = "save"
          /\ UNCHANGED <<file, writes>>
       \/ /\ home              \* write! fails after the truncating open:
          /\ \E order \in Orders(ids) :     \* write_all stored a prefix
                \E n \in 0..(Len(SaveText(order)) - 1) :
                    file' = SubSeq(SaveText(order), 1, n)
          /\ pc' = "exit_err"
          /\ err' = "save"
          /\ UNCHANGED writes
    /\ UNCHANGED <<build, parsed, home, terminal, screen, entered, items, selected, current,
                   ids, page, query, amount, buf, inflight>>

\* the outcome of a cursor move: the new index, or a panic
Move(i) ==
    IF i = Panic_usize
    THEN /\ pc' = "panicked" /\ err' = "panic"
         /\ UNCHANGED <<selected, current>>
    ELSE /\ selected' = i /\ current' = i
         /\ UNCHANGED <<pc, err>>

KeyJ ==
    /\ Read("j")
    /\ Move(next_by(selected, Len(items),
                    unwrap_or_usize(parse_usize(amount), usize(1)), build))
    /\ parsed' = amount
    /\ amount' = IF pc' = "panicked" THEN amount ELSE <<>>
    /\ UNCHANGED <<build, home, file, writes, terminal, screen, entered, items, ids,
                   page, query, buf, inflight>>

KeyK ==
    /\ Read("k")
    /\ Move(previous_by(selected,
                        unwrap_or_usize(parse_usize(amount), usize(1))))
    /\ parsed' = amount
    /\ amount' = <<>>
    /\ UNCHANGED <<build, home, file, writes, terminal, screen, entered, items, ids,
                   page, query, buf, inflight>>

KeyUpperG ==
    /\ Read("G")
    /\ Move(last_item(Len(items)))
    /\ UNCHANGED <<build, parsed, home, file, writes, terminal, screen, entered, items, ids,
                   page, query, amount, buf, inflight>>

\* 'g' that also drops the typed count
KeyLowerG_clearing ==
    /\ Read("g")
    /\ Move(usize(0))
    /\ amount' = <<>>
    /\ UNCHANGED <<build, parsed, home, file, writes, terminal, screen, entered, items, ids,
                   page, query, buf, inflight>>

KeyLowerG ==
    /\ Read("g")
    /\ Move(usize(0))
    /\ UNCHANGED <<build, parsed, home, file, writes, terminal, screen, entered, items, ids,
                   page, query, amount, buf, inflight>>

\* a page step: the new page, then get_items(params).await
PageStep(p) ==
    IF p = Panic
    THEN /\ pc' = "panicked" /\ err' = "panic"
         /\ UNCHANGED <<page, inflight>>
    ELSE /\ page' = p
         /\ pc' = "key_fetch"
         /\ inflight' = inflight + 1
         /\ err' = err

KeyN ==
    /\ Read("n")
    /\ PageStep(next_page_by(page, unwrap_or(parse_u16(amount), 1), build))
    /\ parsed' = amount
    /\ UNCHANGED <<build, home, file, writes, terminal, screen, entered, items,
                   selected, current, ids, query, amount, buf>>

KeyP ==
    /\ Read("p")
    /\ PageStep(prev_page_by(page, unwrap_or(parse_u16(amount), 1)))
    /\ parsed' = amount
    /\ UNCHANGED <<build, home, file, writes, terminal, screen, entered, items,
                   selected, current, ids, query, amount, buf>>

KeySlash ==
    /\ Read("/")
    /\ buf' = <<>>
    /\ pc' = "search"
    /\ UNCHANGED <<build, parsed, home, file, writes, terminal, screen, entered, items,
                   selected, current, ids, page, query, amount, inflight, err>>

\* 'o' / 't': items[current.unwrap_or(0)], then open_url if the document has
\* the link; open_url panics when xdg-open cannot be started
OpenLink(k) ==
    /\ Read(k)
    /\ IF InBounds(current, Len(items))
       THEN \/ UNCHANGED <<pc, err>>
            \/ pc' = "panicked" /\ err' = "panic"
       ELSE pc' = "panicked" /\ err' = "panic"
    /\ UNCHANGED <<build, parsed, home, file, writes, terminal, screen, entered, items,
                   selected, current, ids, page, query, amount, buf, inflight>>

KeyO == OpenLink("o")

KeyT == OpenLink("t")

\* 'b' that sends the request without awaiting it
KeyB_detached ==
    /\ Read("b")
    /\ query' = <<>>
    /\ inflight' = inflight + 1
    /\ UNCHANGED <<pc, build, parsed, home, file, writes, terminal, screen, entered, items,
                   selected, current, ids, page, amount, buf, err>>

KeyB ==
    /\ Read("b")
    /\ query' = <<>>
    /\ pc' = "key_fetch"
    /\ inflight' = inflight + 1
    /\ UNCHANGED <<build, parsed, home, file, writes, terminal, screen, entered, items,
                   selected, current, ids, page, amount, buf, err>>

KeyH ==
    /\ Read("h")
    /\ pc' = "help"
    /\ UNCHANGED <<build, parsed, home, file, writes, terminal, screen, entered, items,
                   selected, current, ids, page, query, amount, buf, inflight,
                   err>>

KeyS ==
    /\ Read("s")
    /\ IF InBounds(current, Len(items))
       THEN /\ ids' = ids \cup {items[to_int(unwrap_or_usize(current, usize(0))) + 1]}
            /\ UNCHANGED <<pc, err>>
       ELSE /\ pc' = "panicked" /\ err' = "panic"
            /\ UNCHANGED ids
    /\ UNCHANGED <<build, parsed, home, file, writes, terminal, screen, entered, items,
                   selected, current, page, query, amount, buf, inflight>>

\* 'd' that always takes the first row instead of the current one
KeyD_first_row ==
    /\ Read("d")
    /\ IF InBounds(current, Len(items))
       THEN /\ ids' = ids \ {items[1]}
            /\ UNCHANGED <<pc, err>>
       ELSE /\ pc' = "panicked" /\ err' = "panic"
            /\ UNCHANGED ids
    /\ UNCHANGED <<build, parsed, home, file, writes, terminal, screen, entered, items,
                   selected, current, page, query, amount, buf, inflight>>

KeyD ==
    /\ Read("d")
    /\ IF InBounds(current, Len(items))
       THEN /\ ids' = ids \ {items[to_int(unwrap_or_usize(current, usize(0))) + 1]}
            /\ UNCHANGED <<pc, err>>
       ELSE /\ pc' = "panicked" /\ err' = "panic"
            /\ UNCHANGED ids
    /\ UNCHANGED <<build, parsed, home, file, writes, terminal, screen, entered, items,
                   selected, current, page, query, amount, buf, inflight>>

\* any other key: `_ => {}`
KeyOther ==
    /\ Read("Esc")
    /\ UNCHANGED <<pc, build, parsed, home, file, writes, terminal, screen, entered, items,
                   selected, current, ids, page, query, amount, buf, inflight,
                   err>>

----------------------------------------------------------------------------
(* Key events in the search loop and the help loop *)

ReadIn(mode, k) ==
    /\ pc = mode
    /\ left > 0
    /\ key' = k
    /\ left' = left - 1

SearchChar ==
    \E c \in SearchChars :
        /\ ReadIn("search", c)
        /\ buf' = Append(buf, c)
        /\ UNCHANGED <<pc, build, parsed, home, file, writes, terminal, screen, entered, items,
                       selected, current, ids, page, query, amount, inflight,
                       err>>

\* Backspace that empties the buffer instead of deleting one character
SearchBackspace_clearing ==
    /\ ReadIn("search", "Backspace")
    /\ buf' = <<>>
    /\ UNCHANGED <<pc, build, parsed, home, file, writes, terminal, screen, entered, items,
                   selected, current, ids, page, query, amount, inflight, err>>

SearchBackspace ==
    /\ ReadIn("search", "Backspace")
    /\ buf' = IF Len(buf) = 0 THEN buf ELSE SubSeq(buf, 1, Len(buf) - 1)
    /\ UNCHANGED <<pc, build, parsed, home, file, writes, terminal, screen, entered, items,
                   selected, current, ids, page, query, amount, inflight, err>>

SearchOther ==
    /\ ReadIn("search", "Esc")
    /\ UNCHANGED <<pc, build, parsed, home, file, writes, terminal, screen, entered, items,
                   selected, current, ids, page, query, amount, buf, inflight,
                   err>>

\* Enter: break, params.set_query(query), get_items(params).await
SearchEnter ==
    /\ ReadIn("search", "Enter")
    /\ query' = buf
    /\ pc' = "key_fetch"
    /\ inflight' = inflight + 1
    /\ UNCHANGED <<build, parsed, home, file, writes, terminal, screen, entered, items,
                   selected, current, ids, page, amount, buf, err>>

\* a help loop that hands the dismissing key on: a digit is accumulated
HelpAnyKey_reprocessing ==
    \E k \in {"q", "5"} :
        /\ ReadIn("help", k)
        /\ pc' = "browse"
        /\ amount' = IF k \in DigitKeys THEN Append(amount, k) ELSE amount
        /\ UNCHANGED <<build, parsed, home, file, writes, terminal, screen, entered, items,
                       selected, current, ids, page, query, buf, inflight, err>>

HelpAnyKey ==
    \E k \in {"q", "5"} :
        /\ ReadIn("help", k)
        /\ pc' = "browse"
        /\ UNCHANGED <<build, parsed, home, file, writes, terminal, screen, entered, items,
                       selected, current, ids, page, query, amount, buf,
                       inflight, err>>

----------------------------------------------------------------------------

Next ==
    \/ FetchReturn \/ Setup \/ Restore \/ IoError
    \/ KeyDigit \/ KeyQ \/ KeyJ \/ KeyK \/ KeyUpperG \/ KeyLowerG
    \/ KeyN \/ KeyP \/ KeySlash \/ KeyO \/ KeyT \/ KeyB \/ KeyH
    \/ KeyS \/ KeyD \/ KeyOther
    \/ SearchChar \/ SearchBackspace \/ SearchOther \/ SearchEnter
    \/ HelpAnyKey

Spec == Init /\ [][Next]_vars

----------------------------------------------------------------------------
(* Params alone: a page step pressed in any state the pagination can be in. *)
(* Every page 0..PageCap is reachable by repeated 'n' / 'p', and every digit *)
(* string by typing it.                                                      *)

\* the decimal digits of u16::MAX, of 2^31, of usize::MAX and of usize::MAX + 1
U16MaxDigits == <<"6", "5", "5", "3", "5">>

TwoTo31Digits == <<"2", "1", "4", "7", "4", "8", "3", "6", "4", "8">>

UsizeMaxDigits ==
    <<"1", "8", "4", "4", "6", "7", "4", "4", "0", "7",
      "3", "7", "0", "9", "5", "5", "1", "6", "1", "5">>

UsizeOverDigits ==
    <<"1", "8", "4", "4", "6", "7", "4", "4", "0", "7",
      "3", "7", "0", "9", "5", "5", "1", "6", "1", "6">>

\* accumulator contents: empty, zero, small, with a leading zero, at and
\* around the page ceiling, the largest u16 and one past it, 2^31, the
\* largest usize and one past it
AmountInputs == { <<>>, <<"0">>, <<"5">>, <<"0", "2">>, <<"9", "9", "9">>,
                  <<"1", "0", "0", "0">>, <<"6", "4", "5", "3", "6">>,
                  U16MaxDigits, <<"6", "5", "5", "3", "6">>,
                  TwoTo31Digits, UsizeMaxDigits, UsizeOverDigits }

InitParams ==
    /\ pc = "browse"
    /\ build \in Builds
    /\ home = TRUE
    /\ file = NoFile
    /\ writes = 0
    /\ terminal = "raw"
    /\ screen = "alternate"
    /\ entered = TRUE
    /\ items = <<IdA>>
    /\ selected = None_usize
    /\ current = None_usize
    /\ ids = {}
    /\ page \in 0..PageCap
    /\ query = <<>>
    /\ amount \in AmountInputs
    /\ buf = <<>>
    /\ inflight = 0
    /\ err = "none"
    /\ key = ""
    /\ parsed = <<>>
    /\ left = 1

NextParams == KeyN \/ KeyP

SpecParams == InitParams /\ [][NextParams]_vars

----------------------------------------------------------------------------
(* The amount-aware keys alone: 'j', 'k', 'n' or 'p' pressed with any         *)
(* accumulator, on any list, with any selection an earlier list can leave.    *)

InitSteps ==
    /\ pc = "browse"
    /\ build \in Builds
    /\ home = TRUE
    /\ file = NoFile
    /\ writes = 0
    /\ terminal = "raw"
    /\ screen = "alternate"
    /\ entered = TRUE
    /\ items \in Responses
    /\ selected \in {None_usize, usize(0), usize(1), usize(2)}
    /\ current = selected
    /\ ids = {}
    /\ page \in {0, 1, 500, PageCap}
    /\ query = <<>>
    /\ amount \in AmountInputs
    /\ buf = <<>>
    /\ inflight = 0
    /\ err = "none"
    /\ key = ""
    /\ parsed = <<>>
    /\ left = 1

NextSteps == KeyJ \/ KeyK \/ KeyN \/ KeyP

SpecSteps == InitSteps /\ [][NextSteps]_vars

----------------------------------------------------------------------------
(* The seen-set store alone: 'q' pressed with any seen-set, then the next     *)
(* run of the program loading the file. Ids are whatever strings the service  *)
(* put in the id field of the documents that were marked.                     *)

\* ids: plain ones, the empty string, one with a line feed inside, one
\* ending in a carriage return
IdInputs == { IdA, IdB, IdC, <<>>, <<"a", LF, "d">>, <<"a", CR>> }

InitStore ==
    /\ pc = "browse"
    /\ build = "debug"
    /\ home \in BOOLEAN
    /\ file \in StartFiles
    /\ writes = 0
    /\ terminal = "raw"
    /\ screen = "alternate"
    /\ entered = TRUE
    /\ items = <<>>
    /\ selected = None_usize
    /\ current = None_usize
    /\ ids \in { S \in SUBSET IdInputs : Cardinality(S) <= MaxIds }
    /\ page = 1
    /\ query = <<>>
    /\ amount = <<>>
    /\ buf = <<>>
    /\ inflight = 0
    /\ err = "none"
    /\ key = ""
    /\ parsed = <<>>
    /\ left = 1

\* the program is started again: main up to the first get_items, with the
\* file and the home directory as the last run left them
Restart ==
    /\ pc \in {"exit_ok", "exit_err"}
    /\ pc' = "main_fetch"
    /\ ids' = get_ids(home, file)
    /\ writes' = 0
    /\ entered' = FALSE
    /\ items' = <<>>
    /\ selected' = None_usize
    /\ current' = None_usize
    /\ page' = 1
    /\ query' = <<"a", "l", "g", "o", "r", "i", "t", "h", "m", "s">>
    /\ amount' = <<>>
    /\ buf' = <<>>
    /\ inflight' = 1
    /\ err' = "none"
    /\ key' = ""
    /\ parsed' = <<>>
    /\ UNCHANGED <<build, home, file, terminal, screen, left>>

NextStore == KeyQ \/ Restore \/ Restart

SpecStore == InitStore /\ [][NextStore]_vars

----------------------------------------------------------------------------
(* Properties *)

Min(a, b) == IF a < b THEN a ELSE b

\* the step count a page-step key takes from the accumulator
StepAmount(s) == unwrap_or(parse_u16(s), 1)

\* the indices of a list of len rows
Rows(len) == { usize(i) : i \in 0..(len - 1) }

NavKeys == {"j", "k", "g", "G"}

\* C1: after a row-step key (j, k) or a page-step key (n, p) has been handled,
\* the digit accumulator is empty.
C1_AccumulatorClearedAfterAmountAction ==
    (key \in {"j", "k", "n", "p"} /\ err # "panic") => amount = <<>>

\* C2: next_by and previous_by never fail, whatever the list length and the
\* prior selection, and on a list of length >= 1 they leave the selected index
\* in 0 .. len-1.
C2_StepStaysInRange ==
    key \in {"j", "k"} =>
        /\ err # "panic"
        /\ Len(items) >= 1 => selected \in Rows(Len(items))

\* C3: right after a navigation key (j, k, g, G), also when an earlier fetch
\* replaced the list by a shorter one, the selected index is an index of the
\* current list. Stated for lists that have an index at all (length >= 1).
C3_SelectionInRangeAfterNavigation ==
    (key \in NavKeys /\ err # "panic" /\ Len(items) >= 1)
        => selected \in Rows(Len(items))

\* C4: 'n' sets page to min(page + amount, 1000) for every page 0..1000 and
\* every u16 amount; it never wraps and never fails.
C4_AdvanceSaturates ==
    [][key' = "n" =>
          /\ err' # "panic"
          /\ page' = Min(page + StepAmount(amount), PageCap)]_vars

\* C5: 'p' never produces a negative or wrapped page: the page becomes 0 when
\* amount >= page and page - amount otherwise.
C5_RetreatFloorsAtZero ==
    [][key' = "p" =>
          /\ err' # "panic"
          /\ page' \in 0..page
          /\ page' = (IF StepAmount(amount) >= page
                      THEN 0 ELSE page - StepAmount(amount))]_vars

\* C5 case: a retreat by more than the page, landing on 0
C5_Witness ==
    /\ key = "p" /\ pc = "key_fetch"
    /\ amount = <<"9", "9", "9">>
    /\ page = 0

\* C6: the page number, and so the page of every request sent, is in 0..1000.
C6_PageWithinBounds == page \in 0..PageCap

\* C6 case: a request carrying the ceiling page after an advance past it
C6_Witness ==
    /\ key = "n" /\ pc = "key_fetch" /\ inflight = 1
    /\ amount = <<"9", "9", "9">>
    /\ page = PageCap

\* C7: once raw mode has been entered, every exit of the program (clean quit,
\* or run_app returning an error) leaves the terminal restored: cooked mode,
\* main screen. Exits where setting up or restoring itself failed are left out.
C7_TerminalRestoredOnExit ==
    (pc \in {"exit_ok", "exit_err"} /\ entered /\ err \notin {"setup", "restore"})
        => terminal = "cooked" /\ screen = "main"

\* C8: the seen-set file is written exactly once, on the clean exit
\* by 'q' and by no other key, and never when a fetch failed.
C8_WrittenOnceOnCleanExit ==
    /\ writes \in {0, 1}
    /\ writes = 1 => key = "q"
    /\ err = "fetch" => writes = 0
    /\ pc \in {"restore", "exit_ok"} => writes = 1

\* C9: a failed fetch ends the process: the list is left as it was, no
\* request stays outstanding, and no step (retry, keystroke) follows.
C9_FailedFetchIsFatal ==
    [][/\ err = "fetch" => UNCHANGED vars
       /\ (err # "fetch" /\ err' = "fetch") =>
              /\ items' = items
              /\ inflight' = 0
              /\ pc' = "exit_err"]_vars

\* C9 case: a fetch started by 'n' failed with keys still to come and a
\* non-empty list on screen
C9_Witness ==
    /\ err = "fetch" /\ key = "n" /\ left > 0
    /\ Len(items) = 3

\* C10: at most one request is outstanding; a key event is read only with
\* none outstanding; n, p, b and the search Enter send exactly one and the
\* loop waits for it.
C10_OneFetchAtATime ==
    [][/\ inflight' \in {0, 1}
       /\ left' # left =>
              /\ inflight = 0
              /\ inflight' = (IF pc' = "key_fetch" THEN 1 ELSE 0)
              /\ (key' \in {"n", "p", "b", "Enter"} /\ err' # "panic")
                     => pc' = "key_fetch"]_vars

\* C10 case: the request of a confirmed search is outstanding
C10_Witness ==
    /\ key = "Enter" /\ pc = "key_fetch" /\ inflight = 1
    /\ query = <<"q">>

\* a step that reads a key event
KeyRead == left' # left

\* the buffer without its last character; the empty buffer stays empty
Pop(b) == IF Len(b) = 0 THEN b ELSE SubSeq(b, 1, Len(b) - 1)

\* C11: with a row selected, '5' then 'j' moves the cursor to
\* min(index + 5, last row) and empties the accumulator, and a bare 'j' moves
\* it to min(index + 1, last row); neither fails.
C11_FiveJThenJ ==
    [][(KeyRead /\ pc = "browse" /\ key' = "j" /\ selected # None_usize
          /\ amount \in {<<"5">>, <<>>}) =>
          /\ err' # "panic"
          /\ amount' = <<>>
          /\ Len(items) >= 1 =>
                selected' = usize(Min(to_int(selected)
                                        + (IF amount = <<>> THEN 1 ELSE 5),
                                      Len(items) - 1))]_vars

\* C12: in the search loop a character key (digits and 'q' included) is
\* appended to the buffer and nothing else changes, Backspace removes the last
\* character (none from an empty buffer), and Enter makes the buffer the
\* query, keeps the page and leaves exactly one request awaited.
C12_SearchEntry ==
    [][(KeyRead /\ pc = "search") =>
          /\ UNCHANGED <<amount, page, ids, selected, current, items, writes,
                         file, err>>
          /\ key' \in SearchChars =>
                buf' = Append(buf, key') /\ pc' = "search" /\ inflight' = 0
                    /\ query' = query
          /\ key' = "Backspace" =>
                buf' = Pop(buf) /\ pc' = "search" /\ inflight' = 0
                    /\ query' = query
          /\ key' = "Enter" =>
                query' = buf /\ pc' = "key_fetch" /\ inflight' = 1]_vars

\* C12 case: 'q' and '5' typed after '/' and confirmed
C12_Witness ==
    /\ key = "Enter" /\ pc = "key_fetch" /\ inflight = 1
    /\ query = <<"q", "5">> /\ left = MaxKeys - 4
    /\ amount = <<>> /\ page = 1 /\ writes = 0

\* C13: the key read in the help loop closes the overlay and does nothing
\* else: no quit, no flush, no digit accumulated, cursor, page, query,
\* seen-set and accumulator as before.
C13_HelpKeyDiscarded ==
    [][(KeyRead /\ pc = "help") =>
          /\ pc' = "browse"
          /\ UNCHANGED <<amount, page, query, ids, selected, current, items,
                         writes, file, inflight, err, terminal, screen,
                         buf>>]_vars

\* C13 case: 'q' closed the overlay and the loop goes on
C13_Witness ==
    /\ key = "q" /\ pc = "browse" /\ writes = 0 /\ terminal = "raw"

\* keys that are neither digits nor row-step nor page-step keys nor 'q'
PassiveKeys == {"g", "G", "s", "d", "o", "t", "b", "h", "/", "Esc"}

\* C14: in Browse mode a key among g, G, s, d, o, t, b, h, '/' or an unmapped
\* key leaves the digit accumulator as it was.
C14_AccumulatorKept ==
    [][(KeyRead /\ pc = "browse" /\ key' \in PassiveKeys)
          => amount' = amount]_vars

\* C14 case: a typed count survives 'g' and is still there for the next key
C14_Witness ==
    /\ key = "g" /\ pc = "browse" /\ selected = usize(0)
    /\ amount = <<"5">> /\ left > 0

\* a digit string without its leading zeros
RECURSIVE StripZeros(_)
StripZeros(s) ==
    IF Len(s) > 0 /\ Head(s) = "0" THEN StripZeros(Tail(s)) ELSE s

\* the digit string s denotes a larger number than the digit string m (m
\* without leading zeros)
Exceeds(s, m) ==
    LET t == StripZeros(s)
    IN  \/ Len(t) > Len(m)
        \/ /\ Len(t) = Len(m)
           /\ \E i \in 1..Len(t) :
                 /\ DigitVal(t[i]) > DigitVal(m[i])
                 /\ \A j \in 1..(i - 1) : t[j] = m[j]

\* the number a digit string of at most nine digits denotes
RECURSIVE DecimalValue(_)
DecimalValue(s) ==
    IF Len(s) = 0 THEN 0
    ELSE DecimalValue(SubSeq(s, 1, Len(s) - 1)) * 10 + DigitVal(s[Len(s)])

DigitOf(n) ==
    CASE n = 0 -> "0" [] n = 1 -> "1" [] n = 2 -> "2" [] n = 3 -> "3"
      [] n = 4 -> "4" [] n = 5 -> "5" [] n = 6 -> "6" [] n = 7 -> "7"
      [] n = 8 -> "8" [] n = 9 -> "9"

\* a usize divided by ten: quotient and remainder, by long division
DivTen(x) ==
    LET r1 == x[1] % 10
        n2 == r1 * Limb + x[2]
        n3 == (n2 % 10) * Limb + x[3]
        n4 == (n3 % 10) * Limb + x[4]
    IN  [quot |-> <<x[1] \div 10, n2 \div 10, n3 \div 10, n4 \div 10>>,
         rem |-> n4 % 10]

\* the decimal digits of a usize, without leading zeros (none for zero)
RECURSIVE Decimal(_)
Decimal(x) ==
    IF x = usize(0) THEN <<>>
    ELSE Append(Decimal(DivTen(x).quot), DigitOf(DivTen(x).rem))

\* the page-step count of an accumulator: the number it denotes, 1 when it
\* is empty or denotes more than a u16 holds
StepOf(s) ==
    IF Len(s) = 0 \/ Exceeds(s, U16MaxDigits) THEN 1
    ELSE DecimalValue(StripZeros(s))

\* v is the row-step count of an accumulator: the usize whose decimal digits
\* are the accumulator's, 1 when it is empty or denotes more than a usize
\* holds
IsRowStepOf(v, s) ==
    IF Len(s) = 0 \/ Exceeds(s, UsizeMaxDigits) THEN v = usize(1)
    ELSE Decimal(v) = StripZeros(s)

\* C15: the amount a row-step (j, k) or page-step (n, p) key uses is the
\* number the accumulator denotes, and 1 when the accumulator is empty or
\* denotes more than the step type holds (u16 for pages, usize for rows).
C15_AmountOrDefault ==
    [][(KeyRead /\ pc = "browse") =>
          /\ key' = "n" =>
                LET r == next_page_by(page, StepOf(amount), build)
                IN  IF r = Panic THEN err' = "panic" ELSE page' = r
          /\ key' = "p" =>
                page' = prev_page_by(page, StepOf(amount))
          /\ key' \in {"j", "k"} =>
                \E v \in {usize(1), unwrap_or_usize(parse_usize(amount),
                                                     usize(1))} :
                    /\ IsRowStepOf(v, amount)
                    /\ key' = "j" =>
                          LET r == next_by(selected, Len(items), v, build)
                          IN  IF r = Panic_usize THEN err' = "panic"
                              ELSE selected' = r
                    /\ key' = "k" => selected' = previous_by(selected, v)]_vars

\* C15 case: 'j' on the first of three rows with an accumulator one past the
\* largest usize moved one row
C15_Witness ==
    /\ key = "j" /\ pc = "browse"
    /\ parsed = UsizeOverDigits
    /\ Len(items) = 3
    /\ selected = usize(1) /\ current = usize(1) /\ amount = <<>>

\* the document the item keys address
Doc == items[to_int(unwrap_or_usize(current, usize(0))) + 1]

\* C17: with a document at the current row, 's' adds exactly its id to the
\* seen-set and 'd' removes exactly its id; every other id stays as it was,
\* and a repeated 's' or 'd' changes nothing.
C17_MarkUnmark ==
    [][(KeyRead /\ pc = "browse" /\ InBounds(current, Len(items))) =>
          /\ key' = "s" =>
                /\ ids' = ids \cup {Doc}
                /\ Doc \in ids'
                /\ Doc \in ids => ids' = ids
          /\ key' = "d" =>
                /\ ids' = ids \ {Doc}
                /\ Doc \notin ids'
                /\ Doc \notin ids => ids' = ids]_vars

\* C17 case: 'd' on the second row removed its id and left the other one
C17_Witness ==
    /\ key = "d" /\ pc = "browse"
    /\ items = <<IdB, IdA>> /\ current = usize(1)
    /\ ids = {IdC}

\* C18: with no row selected, a row-step key selects row 0 whatever the
\* accumulator holds, and empties the accumulator.
C18_FirstStepLandsOnZero ==
    [][(KeyRead /\ pc = "browse" /\ key' \in {"j", "k"}
          /\ selected = None_usize) =>
          /\ selected' = usize(0)
          /\ current' = usize(0)
          /\ amount' = <<>>
          /\ err' = "none"]_vars

\* C18 case: the first row-step on a list of three rows
C18_Witness ==
    /\ key = "j" /\ pc = "browse" /\ left = MaxKeys - 2
    /\ Len(items) = 3
    /\ selected = usize(0) /\ current = usize(0) /\ amount = <<>>

\* C19: when a fetch started by n, p, search or b replaces the list, the
\* selection is reset (to none, or to the first row).
C19_SelectionResetOnReplace ==
    [][(pc = "key_fetch" /\ pc' = "browse") =>
          /\ selected' \in {None_usize, usize(0)}
          /\ current' \in {None_usize, usize(0)}]_vars

\* C20: the row the item keys s, d, o and t address (the current index, or 0
\* without a selection) exists in the current list, so indexing the list never
\* fails in these keys.
C20_ItemKeysNeverFail ==
    key \in {"s", "d", "o", "t"} => InBounds(current, Len(items))

\* the next run of the program starts after a run that saved the seen-set
\* (and ended cleanly, or with the terminal not restored)
LoadAfterSave ==
    pc \in {"exit_ok", "exit_err"} /\ pc' = "main_fetch" /\ writes = 1

\* an id that is one line of text: no line feed in it, no carriage return
\* at its end
OneLine(id) ==
    /\ \A i \in 1..Len(id) : id[i] # LF
    /\ Len(id) > 0 => id[Len(id)] # CR

\* C16 as stated: whatever ids the seen-set holds, a run that saved it is
\* followed by a run that loads exactly the same set; with no file, the
\* loaded set is empty.
C16_RoundTrip ==
    [][/\ LoadAfterSave => ids' = ids
       /\ (pc' = "main_fetch" /\ file = NoFile) => ids' = {}]_vars

\* C16 amended: the same for seen-sets whose ids are each one line of text.
C16_RoundTripOfLines ==
    [][/\ (LoadAfterSave /\ \A id \in ids : OneLine(id)) => ids' = ids
       /\ (pc' = "main_fetch" /\ file = NoFile) => ids' = {}]_vars

\* C16 case: {a, b, c} was saved and the next run has loaded a, b and c and
\* not d
C16_Witness ==
    /\ pc = "main_fetch" /\ file # NoFile
    /\ IdA \in ids /\ IdB \in ids /\ IdC \in ids
    /\ <<"d">> \notin ids
    /\ Cardinality(ids) = 3

====
